---- MODULE Spec2Model ----
(***************************************************************************)
(* A model of sqslisten (src/src/lib.rs): SQSListen::listen starts a       *)
(* clokwerk scheduler thread that, on every due tick, calls                *)
(* receive_message, hands every message of the result to the handler and   *)
(* then deletes it (process_response / ack_message), or hands the receive  *)
(* error to the handler.  The caller stops the thread through the returned *)
(* ScheduleHandle.                                                         *)
(*                                                                         *)
(* Option<T> values are sequences of length at most one: None is <<>> and  *)
(* Some(x) is <<x>>.  The i64 / u32 integers of the interval computation   *)
(* are little-endian sequences of 16-bit limbs, so that they keep their    *)
(* width.                                                                  *)
(***************************************************************************)
EXTENDS Integers, Sequences, FiniteSets, TLC

VARIABLES
    queue_url,   \* SQSListen.queue_url of the adapter the caller holds
    caller,      \* the caller's thread: "running", or "panicked" in listen
    input,       \* per loop: the ReceiveMessageRequest moved into the closure
    that,        \* per loop: the clone of the adapter moved into the closure
    interval,    \* per loop: the period given to scheduler.every, in seconds (u32)
    stop,        \* per loop: the AtomicBool shared by handle and thread
    handle,      \* per loop: the ScheduleHandle as the caller sees it
    pc,          \* per loop: position of the scheduler thread
    due,         \* per loop: whether the job's next run time has been reached
    messages,    \* per loop: the message vector process_response iterates
    idx,         \* per loop: position of the iteration in messages
    inflight,    \* per loop: the external calls that have not returned yet
    log,         \* per loop: the calls made by the current (or last) tick, in order
    received,    \* per loop: what this tick's receive_message returned, once it has
    response,    \* per loop: the messages field of the result it returned, if Ok
    result,      \* per loop: what the call that returned last in this tick returned
    fails        \* per loop: consecutive failed receives, saturating

vars == <<queue_url, caller, input, that, interval, stop, handle, pc, due,
          messages, idx, inflight, log, received, response, result, fails>>

-----------------------------------------------------------------------------
(* Bounds of the model *)

MaxLoops == 2
MaxMsgs == 2
MaxMsgId == 2
MaxFails == 2

Loops == 1..MaxLoops

-----------------------------------------------------------------------------
(* Option *)

None == <<>>
Some(x) == <<x>>
IsSome(o) == Len(o) = 1
IsNone(o) == Len(o) = 0
Unwrap(o) == o[1]

RECURSIVE SeqsUpTo(_, _)
SeqsUpTo(S, n) ==
    IF n = 0 THEN {<<>>}
    ELSE LET shorter == SeqsUpTo(S, n - 1)
         IN  shorter \cup {Append(s, x) : s \in {t \in shorter : Len(t) = n - 1}, x \in S}

-----------------------------------------------------------------------------
(* Fixed-width integers as 16-bit limbs, least significant first *)

LimbBits == 16
Base == 2 ^ LimbBits
Limb == Base - 1

\* i64 values a request's wait_time_seconds is drawn from
I64Zero == <<0, 0, 0, 0>>
I64Five == <<5, 0, 0, 0>>
I64MaxU32 == <<Limb, Limb, 0, 0>>        \* 2^32 - 1
I64Pow32 == <<0, 0, 1, 0>>               \* 2^32
I64MinusOne == <<Limb, Limb, Limb, Limb>> \* -1

\* `x as u32` for an i64 x: the low 32 bits
AsU32(x) == SubSeq(x, 1, 2)

\* u32 addition of 1, wrapped
WrappingAddOne(u) ==
    IF u[1] < Limb THEN <<u[1] + 1, u[2]>>
    ELSE <<0, (u[2] + 1) % Base>>

\* whether `u + 1` overflows u32
AddOneOverflows(u) == u = <<Limb, Limb>>

U32One == <<1, 0>>

\* The exact integer x + 1 of an i64 x, as a two's-complement number of five
\* limbs (wide enough for every i64 plus one)
RECURSIVE Increment(_, _)
Increment(x, i) ==
    IF i > Len(x) THEN x
    ELSE IF x[i] < Limb THEN [x EXCEPT ![i] = x[i] + 1]
    ELSE Increment([x EXCEPT ![i] = 0], i + 1)

SignExtend(x) == Append(x, IF x[Len(x)] >= Base \div 2 THEN Limb ELSE 0)
ExactPlusOne(x) == Increment(SignExtend(x), 1)

\* A u32 as the same five-limb number
U32Exact(u) == u \o <<0, 0, 0>>

-----------------------------------------------------------------------------
(* The values of the queue service *)

QueueUrls == {"qA", "qB"}
WaitTimes == {None, Some(I64Zero), Some(I64Five), Some(I64MaxU32),
              Some(I64Pow32), Some(I64MinusOne)}

\* ReceiveMessageRequest: queue_url, wait_time_seconds and a pass-through field
Requests ==
    [queue_url : QueueUrls, wait_time_seconds : WaitTimes,
     max_number_of_messages : {None}]
NoRequest ==
    [queue_url |-> "", wait_time_seconds |-> None, max_number_of_messages |-> None]

\* A Message: its id, and its receipt handle if it carries one; the service
\* issues a handle of its own for every message, written as the message's id
MsgIds == 1..MaxMsgId
Message ==
    {[id |-> i, receipt_handle |-> rh] : i \in MsgIds, rh \in {None}} \cup
    {[id |-> i, receipt_handle |-> Some(i)] : i \in MsgIds}

\* ReceiveMessageResult.messages : Option<Vec<Message>>
Responses == {None} \cup {Some(ms) : ms \in SeqsUpTo(Message, MaxMsgs)}

ReceiveErrors == {"Service", "HttpDispatch"}
DeleteErrors == {"DeleteFailed"}
HandlerResults == {"Ok", "Err"}

\* One external call of a tick, as recorded in log
Event(op, req, msg, err, del) ==
    [op |-> op, req |-> req, msg |-> msg, err |-> err, del |-> del]
EvReceive(req) == Event("receive", Some(req), None, None, None)
EvHandler(args) == Event("handler", None, args.msg, args.err, None)
EvDelete(del) == Event("delete", None, None, None, Some(del))

-----------------------------------------------------------------------------
(* The decisions of the code, one operator each *)

DEFAULT_INTERVAL == U32One

\* lib.rs 107-110: the outcomes of the interval computation; None is a panic.
\* `wait_time as u32 + 1` overflows for a truncated value of u32::MAX: a build
\* with overflow checks panics there, a build without them wraps to 0.
Intervals(wait) ==
    IF IsNone(wait) THEN {Some(DEFAULT_INTERVAL)}
    ELSE LET u == AsU32(Unwrap(wait))
         IN  IF AddOneOverflows(u) THEN {None, Some(WrappingAddOne(u))}
             ELSE {Some(WrappingAddOne(u))}

\* A faulty variant: the copy sent to the service loses the wait time
CloneRequest_LosesWaitTime(req) ==
    [queue_url |-> req.queue_url,
     wait_time_seconds |-> None,
     max_number_of_messages |-> req.max_number_of_messages]

\* lib.rs 114: `input.clone()`, the derived field-by-field copy of the request
CloneRequest(req) ==
    [queue_url |-> req.queue_url,
     wait_time_seconds |-> req.wait_time_seconds,
     max_number_of_messages |-> req.max_number_of_messages]

\* A faulty variant: the receive error is lost on the way to the handler
HandlerArgsOnError_LosesError(err) == [msg |-> None, err |-> None]

\* lib.rs 117: handler(None, Some(err))
HandlerArgsOnError(err) == [msg |-> None, err |-> Some(err)]

\* A faulty variant: an absent message list is taken for one default message
MessagesOf_DefaultMessage(resp) ==
    IF IsSome(resp) THEN Unwrap(resp) ELSE << [id |-> 1, receipt_handle |-> None] >>

\* lib.rs 134-142: `match &response.messages`: the messages to iterate, none
\* when the field is None
MessagesOf(resp) == IF IsSome(resp) THEN Unwrap(resp) ELSE <<>>

\* A faulty variant: a message is handed over together with an error
HandlerArgsOnMessage_WithError(m) == [msg |-> Some(m), err |-> Some("Service")]

\* lib.rs 137: handler(Some(&message), None)
HandlerArgsOnMessage(m) == [msg |-> Some(m), err |-> None]

\* A faulty variant: the message is acknowledged only when the handler succeeded
AcksAfterHandler_OnlyOnOk(res) == res = "Ok"

\* lib.rs 137-138: `let _ignored = handler(..)` then ack_message, whatever res is
AcksAfterHandler(res) == TRUE

\* lib.rs 146-148: ack_message returns early without a receipt handle
NeedsDelete(m) == IsSome(m.receipt_handle)

\* A faulty variant: the delete names the receipt handle of another message
DeleteRequest_WrongReceipt(self, m) ==
    [queue_url |-> self.queue_url,
     receipt_handle |-> (Unwrap(m.receipt_handle) % MaxMsgId) + 1]

\* lib.rs 152-155: the DeleteMessageRequest of ack_message
DeleteRequest(self, m) ==
    [queue_url |-> self.queue_url, receipt_handle |-> Unwrap(m.receipt_handle)]

\* A faulty variant: the closure acknowledges through the caller's adapter
AdapterOfLoop_Shared(l) == [queue_url |-> queue_url]

\* lib.rs 105, 115: `that`, the clone of the adapter moved into the closure,
\* is the self of process_response and ack_message
AdapterOfLoop(l) == that[l]

\* A faulty variant: a failed delete ends the iteration
ContinuesAfterDelete_OnlyOnOk(res) == res = "Ok"

\* lib.rs 150-156: `let _ignore = ...delete_message(..).sync()`, whatever res is
ContinuesAfterDelete(res) == TRUE

\* A faulty variant: the iteration skips an element
NextIndex_SkipsOne(i) == i + 2

\* lib.rs 136: `for message in messages` moves to the next element
NextIndex(i) == i + 1

\* A faulty variant: the iteration ends early once stop has been called
TickCutShort_OnStop(l) == stop[l]

\* lib.rs 136-139: the iteration consults nothing but the vector; the stop
\* flag is read by the watch thread between runs only
TickCutShort(l) == FALSE

\* A faulty variant: a due job is started while the previous run is still executing
JobMayRun_Overlapping(l) == pc[l] \in {"run_pending", "receive", "handler", "delete"}

\* lib.rs 113, 121: the scheduler thread runs the job from run_pending only,
\* one call at a time
JobMayRun(l) == pc[l] = "run_pending"

\* A faulty variant: listen polls once itself before it returns
ThreadStart_InReceive == "receive"

\* lib.rs 121: watch_thread spawns the thread and returns; the thread starts
\* at the head of its loop, and listen runs nothing of the job itself
ThreadStart == "check"

\* A faulty variant: one stop flag for all the loops of the process
ThreadStops_SharedFlag(l) == \E k \in Loops : stop[k]

\* A faulty variant: the thread gives up after a failed receive
ThreadStops_AfterFailure(l) == stop[l] \/ fails[l] > 0

\* lib.rs 121: the watch thread's `while !stop.load(..)`
ThreadStops(l) == stop[l]

\* A faulty variant: stop returns without waiting for the thread
JoinDone_NoJoin(l) == TRUE

\* examples/basic.rs 29: the handle's stop (its drop) joins the thread
JoinDone(l) == pc[l] = "done"

-----------------------------------------------------------------------------
(* The initial state: an adapter from SQSListen::new, no listen call yet *)

Init ==
    /\ queue_url = ""
    /\ caller = "running"
    /\ input = [l \in Loops |-> NoRequest]
    /\ that = [l \in Loops |-> [queue_url |-> ""]]
    /\ interval = [l \in Loops |-> DEFAULT_INTERVAL]
    /\ stop = [l \in Loops |-> FALSE]
    /\ handle = [l \in Loops |-> "none"]
    /\ pc = [l \in Loops |-> "none"]
    /\ due = [l \in Loops |-> FALSE]
    /\ messages = [l \in Loops |-> <<>>]
    /\ idx = [l \in Loops |-> 0]
    /\ inflight = [l \in Loops |-> {}]
    /\ log = [l \in Loops |-> <<>>]
    /\ received = [l \in Loops |-> None]
    /\ response = [l \in Loops |-> None]
    /\ result = [l \in Loops |-> None]
    /\ fails = [l \in Loops |-> 0]

-----------------------------------------------------------------------------
(* The caller's thread *)

\* SQSListen::listen with a request of Reqs; loops are numbered in call order
Listen(l, Reqs) ==
    /\ caller = "running"
    /\ handle[l] = "none"
    /\ IF l = 1 THEN TRUE ELSE handle[l - 1] # "none"
    /\ \E req \in Reqs : \E iv \in Intervals(req.wait_time_seconds) :
        /\ queue_url' = req.queue_url
        /\ IF IsNone(iv)
           THEN /\ caller' = "panicked"
                /\ UNCHANGED <<input, that, interval, stop, handle, pc>>
           ELSE /\ input' = [input EXCEPT ![l] = req]
                /\ that' = [that EXCEPT ![l] = [queue_url |-> req.queue_url]]
                /\ interval' = [interval EXCEPT ![l] = Unwrap(iv)]
                /\ stop' = [stop EXCEPT ![l] = FALSE]
                /\ handle' = [handle EXCEPT ![l] = "held"]
                /\ pc' = [pc EXCEPT ![l] = ThreadStart]
                /\ UNCHANGED caller
    /\ UNCHANGED <<due, messages, idx, inflight, log, received, response, result, fails>>

\* ScheduleHandle::stop: sets the flag, then waits for the thread
Stop(l) ==
    /\ handle[l] = "held"
    /\ stop' = [stop EXCEPT ![l] = TRUE]
    /\ handle' = [handle EXCEPT ![l] = "joining"]
    /\ UNCHANGED <<queue_url, caller, input, that, interval, pc, due, messages,
                   idx, inflight, log, received, response, result, fails>>

\* stop returns once the thread has been joined
StopReturn(l) ==
    /\ handle[l] = "joining"
    /\ JoinDone(l)
    /\ handle' = [handle EXCEPT ![l] = "stopped"]
    /\ UNCHANGED <<queue_url, caller, input, that, interval, stop, pc, due,
                   messages, idx, inflight, log, received, response, result, fails>>

-----------------------------------------------------------------------------
(* The scheduler thread of loop l *)

Alive(l) == pc[l] \notin {"none", "done"}

\* The clock reaches the next run time of the job
TimeElapses(l) ==
    /\ Alive(l)
    /\ ~due[l]
    /\ due' = [due EXCEPT ![l] = TRUE]
    /\ UNCHANGED <<queue_url, caller, input, that, interval, stop, handle, pc,
                   messages, idx, inflight, log, received, response, result, fails>>

\* `while !stop.load(..)`
CheckStop(l) ==
    /\ pc[l] = "check"
    /\ pc' = [pc EXCEPT ![l] = IF ThreadStops(l) THEN "done" ELSE "run_pending"]
    /\ UNCHANGED <<queue_url, caller, input, that, interval, stop, handle, due,
                   messages, idx, inflight, log, received, response, result, fails>>

\* run_pending with no job due
RunPendingIdle(l) ==
    /\ pc[l] = "run_pending"
    /\ ~due[l]
    /\ pc' = [pc EXCEPT ![l] = "sleep"]
    /\ UNCHANGED <<queue_url, caller, input, that, interval, stop, handle, due,
                   messages, idx, inflight, log, received, response, result, fails>>

\* run_pending with the job due: the closure starts and calls
\* sqs_client.receive_message(input.clone())
Tick(l) ==
    /\ JobMayRun(l)
    /\ due[l]
    /\ due' = [due EXCEPT ![l] = FALSE]
    /\ pc' = [pc EXCEPT ![l] = "receive"]
    /\ inflight' = [inflight EXCEPT ![l] = @ \cup {"receive"}]
    /\ log' = [log EXCEPT ![l] = <<EvReceive(CloneRequest(input[l]))>>]
    /\ received' = [received EXCEPT ![l] = None]
    /\ response' = [response EXCEPT ![l] = None]
    /\ result' = [result EXCEPT ![l] = None]
    /\ messages' = [messages EXCEPT ![l] = <<>>]
    /\ idx' = [idx EXCEPT ![l] = 0]
    /\ UNCHANGED <<queue_url, caller, input, that, interval, stop, handle, fails>>

\* process_response's loop at element i of ms, the call `returned` having
\* just returned: the handler is called with element i, or the closure returns
Dispatch(l, ms, i, returned) ==
    IF i <= Len(ms) /\ ~TickCutShort(l)
    THEN /\ pc' = [pc EXCEPT ![l] = "handler"]
         /\ idx' = [idx EXCEPT ![l] = i]
         /\ inflight' = [inflight EXCEPT ![l] = (@ \ {returned}) \cup {"handler"}]
         /\ log' = [log EXCEPT ![l] = Append(@, EvHandler(HandlerArgsOnMessage(ms[i])))]
    ELSE /\ pc' = [pc EXCEPT ![l] = "sleep"]
         /\ idx' = [idx EXCEPT ![l] = i]
         /\ inflight' = [inflight EXCEPT ![l] = @ \ {returned}]
         /\ UNCHANGED log

\* receive_message returns Ok(response), a response of Resps
ReceiveOk(l, Resps) ==
    /\ pc[l] = "receive"
    /\ \E resp \in Resps :
        LET ms == MessagesOf(resp)
        IN  /\ response' = [response EXCEPT ![l] = Some(resp)]
            /\ messages' = [messages EXCEPT ![l] = ms]
            /\ Dispatch(l, ms, 1, "receive")
    /\ received' = [received EXCEPT ![l] = Some("Ok")]
    /\ result' = [result EXCEPT ![l] = Some("Ok")]
    /\ fails' = [fails EXCEPT ![l] = 0]
    /\ UNCHANGED <<queue_url, caller, input, that, interval, stop, handle, due>>

\* receive_message returns Err(err): handler(None, Some(err))
ReceiveErr(l) ==
    /\ pc[l] = "receive"
    /\ \E err \in ReceiveErrors :
        /\ log' = [log EXCEPT ![l] = Append(@, EvHandler(HandlerArgsOnError(err)))]
        /\ received' = [received EXCEPT ![l] = Some(err)]
        /\ UNCHANGED response
        /\ result' = [result EXCEPT ![l] = Some(err)]
    /\ pc' = [pc EXCEPT ![l] = "handler"]
    /\ inflight' = [inflight EXCEPT ![l] = (@ \ {"receive"}) \cup {"handler"}]
    /\ fails' = [fails EXCEPT ![l] = IF @ < MaxFails THEN @ + 1 ELSE @]
    /\ UNCHANGED <<queue_url, caller, input, that, interval, stop, handle, due,
                   messages, idx>>

\* The handler returns res. After a receive error the closure returns; after a
\* message, ack_message deletes it when it has a receipt handle, else the
\* loop moves on.
HandlerReturn(l) ==
    /\ pc[l] = "handler"
    /\ \E res \in HandlerResults :
        /\ result' = [result EXCEPT ![l] = Some(res)]
        /\ IF IsSome(received[l]) /\ Unwrap(received[l]) \in ReceiveErrors
           THEN /\ pc' = [pc EXCEPT ![l] = "sleep"]
                /\ inflight' = [inflight EXCEPT ![l] = @ \ {"handler"}]
                /\ UNCHANGED <<idx, log>>
           ELSE LET m == messages[l][idx[l]]
                IN  IF AcksAfterHandler(res) /\ NeedsDelete(m)
                    THEN /\ pc' = [pc EXCEPT ![l] = "delete"]
                         /\ inflight' = [inflight EXCEPT ![l] =
                                             (@ \ {"handler"}) \cup {"delete"}]
                         /\ log' = [log EXCEPT ![l] =
                                       Append(@, EvDelete(DeleteRequest(AdapterOfLoop(l), m)))]
                         /\ UNCHANGED idx
                    ELSE Dispatch(l, messages[l], NextIndex(idx[l]), "handler")
    /\ UNCHANGED <<queue_url, caller, input, that, interval, stop, handle, due,
                   messages, received, response, fails>>

\* delete_message returns res, which is dropped; the loop moves on
DeleteReturn(l) ==
    /\ pc[l] = "delete"
    /\ \E res \in {"Ok"} \cup DeleteErrors :
        /\ result' = [result EXCEPT ![l] = Some(res)]
        /\ IF ContinuesAfterDelete(res)
           THEN Dispatch(l, messages[l], NextIndex(idx[l]), "delete")
           ELSE Dispatch(l, messages[l], Len(messages[l]) + 1, "delete")
    /\ UNCHANGED <<queue_url, caller, input, that, interval, stop, handle, due,
                   messages, received, response, fails>>

\* thread::sleep(frequency) of the watch thread returns
Sleep(l) ==
    /\ pc[l] = "sleep"
    /\ pc' = [pc EXCEPT ![l] = "check"]
    /\ UNCHANGED <<queue_url, caller, input, that, interval, stop, handle, due,
                   messages, idx, inflight, log, received, response, result, fails>>

-----------------------------------------------------------------------------
(* Specifications *)

ThreadStep(l, Resps) ==
    \/ CheckStop(l)
    \/ RunPendingIdle(l)
    \/ Tick(l)
    \/ ReceiveOk(l, Resps)
    \/ ReceiveErr(l)
    \/ HandlerReturn(l)
    \/ DeleteReturn(l)
    \/ Sleep(l)

\* One listen call on the adapter, every request and every response
Next ==
    \E l \in {1} :
        \/ Listen(l, Requests)
        \/ Stop(l)
        \/ StopReturn(l)
        \/ TimeElapses(l)
        \/ ThreadStep(l, Responses)

Spec == Init /\ [][Next]_vars

\* The same loop with one queue, two wait times and responses of at most one
\* message, and with the scheduling the thread has: its steps are taken (the
\* receive, handler and delete calls return, the sleep ends) and the clock
\* reaches the job's next run time. The caller's stop is under no obligation.
FairRequests ==
    {r \in Requests : r.queue_url = "qA" /\ r.wait_time_seconds \in {None, Some(I64Five)}}
FairResponses == {None} \cup {Some(ms) : ms \in SeqsUpTo(Message, 1)}

FairNext ==
    \E l \in {1} :
        \/ Listen(l, FairRequests)
        \/ Stop(l)
        \/ StopReturn(l)
        \/ TimeElapses(l)
        \/ ThreadStep(l, FairResponses)

FairSpec ==
    /\ Init
    /\ [][FairNext]_vars
    /\ WF_vars(ThreadStep(1, FairResponses))
    /\ WF_vars(TimeElapses(1))

\* Two listen calls on the one adapter, each with its own loop, for requests
\* on either queue without a wait time and results that are empty or hold
\* one message with a receipt handle
MultiRequests ==
    {r \in Requests : r.wait_time_seconds = None}
MultiResponses == {None, Some(<< [id |-> 1, receipt_handle |-> Some(1)] >>)}

TwoLoops == {1, 2}

MultiNext ==
    \E l \in TwoLoops :
        \/ Listen(l, MultiRequests)
        \/ Stop(l)
        \/ StopReturn(l)
        \/ TimeElapses(l)
        \/ ThreadStep(l, MultiResponses)

MultiSpec == Init /\ [][MultiNext]_vars

-----------------------------------------------------------------------------
(* What the claims speak of *)

Started(l) == handle[l] # "none"
InTick(l) == pc[l] \in {"receive", "handler", "delete"}
\* the tick whose calls log[l] holds has run to its end
TickOver(l) == log[l] # <<>> /\ ~InTick(l)
ReceivedOk(l) == received[l] = Some("Ok")
ReceiveFailed(l) == IsSome(received[l]) /\ Unwrap(received[l]) \in ReceiveErrors

IsHandlerCall(e) == e.op = "handler"
IsDeleteCall(e) == e.op = "delete"
HasReceipt(m) == m.receipt_handle # None
HandlerCalls(l) == SelectSeq(log[l], IsHandlerCall)
DeleteCalls(l) == SelectSeq(log[l], IsDeleteCall)

\* call k of the tick's log has returned
HasReturned(l, k) == k < Len(log[l]) \/ ~InTick(l)

-----------------------------------------------------------------------------
\* C1: in a tick whose receive succeeded, every handler call for a message
\* with a receipt handle that has returned, with Ok or with Err, is followed
\* at once by the delete of that message; a tick that is over has handed
\* every message of the result to the handler; and the thread ends only
\* because stop was called.
C1_HandlerResultNeverPreventsAck ==
    \A l \in Loops :
        /\ ReceivedOk(l) =>
              /\ \A k \in 1..Len(log[l]) :
                    (/\ IsHandlerCall(log[l][k])
                     /\ HasReturned(l, k)
                     /\ HasReceipt(Unwrap(log[l][k].msg)))
                    => /\ k < Len(log[l])
                       /\ IsDeleteCall(log[l][k + 1])
                       /\ Some(Unwrap(log[l][k + 1].del).receipt_handle)
                              = Unwrap(log[l][k].msg).receipt_handle
              /\ TickOver(l) => Len(HandlerCalls(l)) = Len(messages[l])
        /\ pc[l] = "done" => stop[l]

\* the handler returned Err for a message and its delete is in flight
C1_Witness ==
    \E l \in Loops :
        /\ ReceivedOk(l)
        /\ pc[l] = "delete"
        /\ result[l] = Some("Err")
        /\ idx[l] < Len(messages[l])

-----------------------------------------------------------------------------
\* C2: when a tick whose receive succeeded with n messages is over, the
\* handler was called exactly n times, call i with (Some(message i), None),
\* and the deletes issued are exactly those of the messages that carry a
\* receipt handle, one each, in the order of the result.
ExpectedHandlerCalls(ms) ==
    [i \in 1..Len(ms) |-> Event("handler", None, Some(ms[i]), None, None)]
ReceiptOfMessage(m) == Unwrap(m.receipt_handle)
ReceiptOfDelete(e) == Unwrap(e.del).receipt_handle
MapSeq(s, Op(_)) == [i \in 1..Len(s) |-> Op(s[i])]

C2_OneHandlerCallPerMessageOneDeletePerReceipt ==
    \A l \in Loops :
        (ReceivedOk(l) /\ TickOver(l)) =>
            /\ HandlerCalls(l) = ExpectedHandlerCalls(messages[l])
            /\ MapSeq(DeleteCalls(l), ReceiptOfDelete)
                   = MapSeq(SelectSeq(messages[l], HasReceipt), ReceiptOfMessage)

\* the tick of messages [{1, receipt 1}, {2, no receipt}] is over
C2_Witness ==
    \E l \in Loops :
        /\ ReceivedOk(l)
        /\ TickOver(l)
        /\ messages[l] = << [id |-> 1, receipt_handle |-> Some(1)],
                            [id |-> 2, receipt_handle |-> None] >>
        /\ Len(DeleteCalls(l)) = 1

-----------------------------------------------------------------------------
\* C3: in a tick whose receive failed with error e, the calls after the
\* receive are exactly one handler call, with (None, Some(e)), and no delete.
C3_ReceiveFailureOneHandlerCallNoDelete ==
    \A l \in Loops :
        ReceiveFailed(l) =>
            /\ Len(log[l]) = 2
            /\ log[l][2] = Event("handler", None, None, received[l], None)
            /\ DeleteCalls(l) = <<>>

\* a tick whose receive failed is over
C3_Witness ==
    \E l \in Loops : ReceiveFailed(l) /\ TickOver(l) /\ Len(HandlerCalls(l)) = 1

-----------------------------------------------------------------------------
\* C4: after a tick is over, whatever its outcome and however many receives
\* failed in a row before it (k, counted up to MaxFails), a further receive
\* is issued unless stop is called.
C4_PollingContinues ==
    \A k \in 0..MaxFails :
        (TickOver(1) /\ fails[1] = k /\ ~stop[1]) ~> (pc[1] = "receive" \/ stop[1])

\* a receive is issued after MaxFails failed receives in a row
C4_Witness == pc[1] = "receive" /\ fails[1] = MaxFails /\ ~stop[1]

-----------------------------------------------------------------------------
\* C5: once stop has returned to the caller, no step of the loop issues a
\* receive.
C5_NoReceiveAfterStopReturned ==
    [][\A l \in Loops :
          handle[l] = "stopped" => ~(pc[l] # "receive" /\ pc'[l] = "receive")]_vars

\* stop has returned on a loop that has run ticks, with its job due again
C5_Witness ==
    \E l \in Loops : handle[l] = "stopped" /\ due[l] /\ log[l] # <<>>

-----------------------------------------------------------------------------
\* C6: the period of a started loop is exactly w + 1 seconds when the
\* request carries wait time w (any i64), and 1 second when it carries none.
C6_IntervalIsWaitPlusOne ==
    \A l \in Loops :
        Started(l) =>
            LET w == input[l].wait_time_seconds
            IN  IF IsSome(w)
                THEN U32Exact(interval[l]) = ExactPlusOne(Unwrap(w))
                ELSE interval[l] = <<1, 0>>

-----------------------------------------------------------------------------
\* C7: every handler call has exactly one of its two arguments present.
C7_HandlerGetsMessageOrError ==
    \A l \in Loops :
        \A k \in 1..Len(log[l]) :
            IsHandlerCall(log[l][k]) => (IsSome(log[l][k].msg) # IsSome(log[l][k].err))

\* a handler call with a receive error is in progress
C7_Witness ==
    \E l \in Loops :
        /\ pc[l] = "handler"
        /\ ReceiveFailed(l)
        /\ IsSome(log[l][Len(log[l])].err)

-----------------------------------------------------------------------------
\* C8: at most one call of a loop is in progress, the one the thread is at;
\* while the handler runs, no receive and no delete is in progress.
C8_OneCallInProgress ==
    \A l \in Loops :
        /\ Cardinality(inflight[l]) <= 1
        /\ inflight[l] = IF InTick(l) THEN {pc[l]} ELSE {}

\* the job is due again while a handler call is in progress
C8_Witness ==
    \E l \in Loops : pc[l] = "handler" /\ due[l] /\ inflight[l] = {"handler"}

-----------------------------------------------------------------------------
\* C9: no handler call carries a delete error; and when the delete that
\* returned last failed, the handler is being called with the next message of
\* the result, or, after the last message, the tick is over with every
\* message handled and the thread goes on unless stop was called.
C9_DeleteErrorSwallowed ==
    \A l \in Loops :
        /\ \A k \in 1..Len(log[l]) :
              (IsHandlerCall(log[l][k]) /\ IsSome(log[l][k].err))
                  => Unwrap(log[l][k].err) \notin DeleteErrors
        /\ (IsSome(result[l]) /\ Unwrap(result[l]) \in DeleteErrors) =>
              IF idx[l] <= Len(messages[l])
              THEN /\ pc[l] = "handler"
                   /\ log[l][Len(log[l])]
                          = Event("handler", None, Some(messages[l][idx[l]]), None, None)
              ELSE /\ Len(HandlerCalls(l)) = Len(messages[l])
                   /\ pc[l] \in {"sleep", "check", "run_pending"} \/ stop[l]

\* the next message is with the handler after a delete failed
C9_Witness ==
    \E l \in Loops :
        /\ result[l] = Some("DeleteFailed")
        /\ pc[l] = "handler"
        /\ idx[l] = 2

-----------------------------------------------------------------------------
\* C10: in a tick whose receive succeeded, every delete comes right after
\* the handler call of the message it deletes, and that call has returned;
\* no handler call starts while a delete is in progress; and the deletes
\* issued never outnumber the handler calls that have returned.
C10_HandlerThenDeletePerMessage ==
    \A l \in Loops :
        ReceivedOk(l) =>
            /\ \A k \in 1..Len(log[l]) :
                  IsDeleteCall(log[l][k]) =>
                      /\ k > 1
                      /\ IsHandlerCall(log[l][k - 1])
                      /\ Unwrap(log[l][k - 1].msg).receipt_handle
                             = Some(ReceiptOfDelete(log[l][k]))
            /\ ~({"handler", "delete"} \subseteq inflight[l])
            /\ Len(DeleteCalls(l))
                   <= Len(HandlerCalls(l)) - (IF "handler" \in inflight[l] THEN 1 ELSE 0)

\* the second message is with the handler after the delete of the first
C10_Witness ==
    \E l \in Loops :
        /\ ReceivedOk(l)
        /\ pc[l] = "handler"
        /\ idx[l] = 2
        /\ Len(DeleteCalls(l)) = 1

-----------------------------------------------------------------------------
\* C11: in a tick whose receive succeeded with no messages (the list absent,
\* or present and empty), no handler call and no delete is made: the receive
\* is the tick's only call and the tick is over.
NoMessages(resp) == resp = None \/ resp = Some(<<>>)

C11_EmptyResultDoesNothing ==
    \A l \in Loops :
        (ReceivedOk(l) /\ IsSome(response[l]) /\ NoMessages(Unwrap(response[l]))) =>
            /\ Len(log[l]) = 1
            /\ HandlerCalls(l) = <<>>
            /\ DeleteCalls(l) = <<>>
            /\ TickOver(l)

\* a tick whose result had no message list is over
C11_Witness ==
    \E l \in Loops :
        /\ ReceivedOk(l)
        /\ response[l] = Some(None)
        /\ TickOver(l)

-----------------------------------------------------------------------------
\* C12: the request a loop was started with never changes afterwards, and
\* every step that issues a receive issues it with exactly that request; the
\* request a loop starts with names the queue the listen call gave the
\* adapter.
C12_ReceiveCarriesTheListenRequest ==
    [][\A l \in Loops :
          /\ Started(l) => input'[l] = input[l]
          /\ (~Started(l) /\ handle'[l] = "held") => input'[l].queue_url = queue_url'
          /\ (pc[l] # "receive" /\ pc'[l] = "receive") =>
                log'[l] = << Event("receive", Some(input[l]), None, None, None) >>]_vars

\* a receive with a wait time in its request is in flight after failed ticks
C12_Witness ==
    \E l \in Loops :
        /\ pc[l] = "receive"
        /\ fails[l] > 0
        /\ log[l] = << Event("receive", Some(input[l]), None, None, None) >>
        /\ IsSome(input[l].wait_time_seconds)

-----------------------------------------------------------------------------
\* C13: up to and including the step in which listen returns the handle, the
\* loop has made no call and is in none; and every step that issues a call or
\* takes a return is a step of the thread, not of the caller: it leaves the
\* handles, the stop flags and the adapter as they are.
C13_ListenMakesNoCall ==
    [][\A l \in Loops :
          /\ ~Started(l) =>
                /\ log'[l] = <<>>
                /\ inflight'[l] = {}
                /\ pc'[l] \notin {"receive", "handler", "delete"}
          /\ (log'[l] # log[l] \/ inflight'[l] # inflight[l]) =>
                /\ handle' = handle
                /\ stop' = stop
                /\ caller' = caller
                /\ queue_url' = queue_url]_vars

\* listen has returned the handle and no tick has run, none being due yet
C13_Witness ==
    \E l \in Loops :
        /\ handle[l] = "held"
        /\ pc[l] = "check"
        /\ ~due[l]
        /\ log[l] = <<>>

-----------------------------------------------------------------------------
\* C14: every delete of a loop names the queue of the request the loop was
\* started with, whatever queue a later listen call has stored in the adapter.
C14_DeleteNamesTheLoopsQueue ==
    \A l \in Loops :
        \A k \in 1..Len(log[l]) :
            IsDeleteCall(log[l][k]) =>
                Unwrap(log[l][k].del).queue_url = input[l].queue_url

\* a delete of the first loop is in flight, naming its own queue, while the
\* adapter stores the other queue of the second listen call
C14_Witness ==
    /\ Started(2)
    /\ pc[1] = "delete"
    /\ queue_url # input[1].queue_url
    /\ queue_url = input[2].queue_url
    /\ Unwrap(log[1][Len(log[1])].del).queue_url = input[1].queue_url

-----------------------------------------------------------------------------
\* C15: a tick that ends after stop was called ends complete: when its
\* receive succeeded, every message of the result has had its handler call
\* and every message with a receipt handle its delete.
C15_StopDoesNotCutTheTickShort ==
    [][\A l \in Loops :
          (stop[l] /\ InTick(l) /\ pc'[l] \notin {"receive", "handler", "delete"}
             /\ received'[l] = Some("Ok")) =>
              /\ Len(SelectSeq(log'[l], IsHandlerCall)) = Len(messages'[l])
              /\ Len(SelectSeq(log'[l], IsDeleteCall))
                     = Len(SelectSeq(messages'[l], HasReceipt))]_vars

\* stop has been called and waits for the thread, whose tick has reached the
\* delete of the second message
C15_Witness ==
    \E l \in Loops :
        /\ handle[l] = "joining"
        /\ stop[l]
        /\ pc[l] = "delete"
        /\ idx[l] = 2

-----------------------------------------------------------------------------
\* C16: once stop has returned on a loop, no handler call and no delete is
\* in progress or starts any more: the thread has ended, no call is
\* outstanding, and the loop's record of calls does not change again.
C16_NoHandlerNoDeleteAfterStopReturned ==
    [][\A l \in Loops :
          /\ handle'[l] = "stopped" =>
                /\ pc'[l] = "done"
                /\ inflight'[l] = {}
          /\ handle[l] = "stopped" =>
                /\ log'[l] = log[l]
                /\ idx'[l] = idx[l]]_vars

\* stop has returned on a loop whose last tick handed both messages of its
\* result to the handler and deleted them
C16_Witness ==
    \E l \in Loops :
        /\ handle[l] = "stopped"
        /\ Len(HandlerCalls(l)) = 2
        /\ Len(DeleteCalls(l)) = 2

-----------------------------------------------------------------------------
\* C17: the loops of separate listen calls are independent. A step of the
\* caller on one loop's handle (stop called, stop returned) changes nothing
\* of another loop; a loop's stop flag is set only when stop was called on
\* its own handle; and a loop's thread ends only when its own flag is set,
\* so a loop whose handle is still held goes from the flag check to its
\* pending jobs whatever happened to the other handles.
C17_LoopsAreIndependent ==
    [][\A l \in Loops : \A k \in Loops \ {l} :
          /\ (Started(l) /\ handle'[l] # handle[l]) =>
                /\ stop'[k] = stop[k]
                /\ handle'[k] = handle[k]
                /\ pc'[k] = pc[k]
                /\ due'[k] = due[k]
                /\ interval'[k] = interval[k]
                /\ input'[k] = input[k]
                /\ that'[k] = that[k]
                /\ log'[k] = log[k]
                /\ inflight'[k] = inflight[k]
          /\ stop'[k] => handle'[k] \in {"joining", "stopped"}
          /\ (pc[k] = "check" /\ pc'[k] # "check" /\ handle[k] = "held") =>
                pc'[k] = "run_pending"]_vars

\* stop has returned on the one loop while the other, its handle still held,
\* is in a tick: its handler was called with the message received
C17_Witness ==
    \E l \in Loops : \E k \in Loops \ {l} :
        /\ handle[l] = "stopped"
        /\ handle[k] = "held"
        /\ ~stop[k]
        /\ pc[k] = "handler"
        /\ idx[k] = 1

====
